---- MODULE Spec2Model ----
(***************************************************************************)
(* Model of descriptors.py: derivation paths with free account / index     *)
(* levels (Path), the diagonal walk of one descriptor's (index, account)   *)
(* grid (DescriptorScriptIterator) and the round-robin merge of all the    *)
(* descriptors (ScriptIterator).                                           *)
(*                                                                         *)
(* A path "m/44'/0'/a'/0/i" is the sequence of its levels after "m"; a     *)
(* level is [kind, val, hard]: kind "lit" is a decimal literal val, kind   *)
(* "a" / "i" the account / index placeholder, hard the trailing quote.     *)
(* Optional integers (Python's None default) are <<>> or <<v>>.            *)
(***************************************************************************)
EXTENDS Integers, Sequences, FiniteSets, TLC

VARIABLES
    args,               \* the constructor arguments of the object under test
    scriptIterator,     \* the ScriptIterator: [index, descriptors, total_scripts]
    descriptorIterator, \* a DescriptorScriptIterator driven on its own
    ret,                \* outcome of the last next_script() call
    results,            \* the non-None results returned so far, in order
    cells,              \* for each result, the descriptor and the cell it was derived at
    actives,            \* for each result, the size of the collection the call left
    nones               \* number of calls that returned None so far

vars == <<args, scriptIterator, descriptorIterator, ret, results, cells, actives, nones>>

-----------------------------------------------------------------------------
(* Bounds of the model *)

MaxIndex == 2
MaxAccount == 2
MaxTemplates == 3
MaxNone == 2

-----------------------------------------------------------------------------
(* Constants of the program *)

\* Derivation indexes reach 2^32 - 1: a derivation index is written in base
\* 2^16 as [hi, lo], standing for hi * 2^16 + lo.
Wide(v) == [hi |-> v \div 65536, lo |-> v % 65536]

WideAdd(x, y) ==
    [hi |-> x.hi + y.hi + ((x.lo + y.lo) \div 65536), lo |-> (x.lo + y.lo) % 65536]

\* bip32.HARDENED_INDEX = 0x80000000 = 32768 * 2^16
HARDENED_INDEX == [hi |-> 32768, lo |-> 0]

LEGACY == "LEGACY"
COMPAT == "COMPAT"
SEGWIT == "SEGWIT"
ScriptType == {LEGACY, COMPAT, SEGWIT}

Lit(v) == [kind |-> "lit", val |-> v, hard |-> FALSE]
LitH(v) == [kind |-> "lit", val |-> v, hard |-> TRUE]
VarA == [kind |-> "a", val |-> 0, hard |-> FALSE]
VarAH == [kind |-> "a", val |-> 0, hard |-> TRUE]
VarI == [kind |-> "i", val |-> 0, hard |-> FALSE]
VarIH == [kind |-> "i", val |-> 0, hard |-> TRUE]

Bip(purpose, account, change) == <<LitH(purpose), LitH(0), account, Lit(change), VarI>>

\* The registry shipped with the program, in the dict's insertion order.
descriptors == <<
    [path |-> Bip(44, VarAH, 0), types |-> <<LEGACY>>],
    [path |-> Bip(44, VarAH, 1), types |-> <<LEGACY>>],
    [path |-> Bip(49, VarAH, 0), types |-> <<COMPAT>>],
    [path |-> Bip(49, VarAH, 1), types |-> <<COMPAT>>],
    [path |-> Bip(84, VarAH, 0), types |-> <<SEGWIT>>],
    [path |-> Bip(84, VarAH, 1), types |-> <<SEGWIT>>],
    [path |-> <<LitH(0), LitH(0), VarIH>>, types |-> <<LEGACY, COMPAT, SEGWIT>>],
    [path |-> <<LitH(0), Lit(0), VarI>>, types |-> <<LEGACY, COMPAT, SEGWIT>>],
    [path |-> <<LitH(0), Lit(1), VarI>>, types |-> <<LEGACY, COMPAT, SEGWIT>>],
    [path |-> Bip(44, LitH(2147483647), 0), types |-> <<LEGACY>>],
    [path |-> Bip(44, LitH(2147483647), 1), types |-> <<LEGACY>>],
    [path |-> Bip(49, LitH(2147483647), 0), types |-> <<COMPAT>>],
    [path |-> Bip(49, LitH(2147483647), 1), types |-> <<COMPAT>>],
    [path |-> Bip(84, LitH(2147483647), 0), types |-> <<SEGWIT>>],
    [path |-> Bip(84, LitH(2147483647), 1), types |-> <<SEGWIT>>],
    [path |-> Bip(84, LitH(2147483646), 0), types |-> <<SEGWIT>>],
    [path |-> Bip(84, LitH(2147483646), 1), types |-> <<SEGWIT>>],
    [path |-> Bip(84, LitH(2147483645), 0), types |-> <<SEGWIT>>],
    [path |-> Bip(84, LitH(2147483645), 1), types |-> <<SEGWIT>>],
    [path |-> Bip(84, LitH(2147483644), 0), types |-> <<SEGWIT>>],
    [path |-> Bip(84, LitH(2147483644), 1), types |-> <<SEGWIT>>] >>

-----------------------------------------------------------------------------
(* class Path *)

has_variable_account(path) == \E k \in DOMAIN path : path[k].kind = "a"

has_variable_index(path) == \E k \in DOMAIN path : path[k].kind = "i"

\* str.replace of one placeholder letter by the decimal text of value; the
\* text of None is "None", which is no number.
replace(path, letter, value) ==
    [k \in DOMAIN path |->
        IF path[k].kind = letter
        THEN IF value = <<>>
             THEN [kind |-> "None", val |-> 0, hard |-> path[k].hard]
             ELSE [kind |-> "lit", val |-> value[1], hard |-> path[k].hard]
        ELSE path[k]]

\* bug: the hardened offset left out
to_list_no_offset(path, index, account) ==
    LET p == replace(replace(path, "a", account), "i", index)
    IN  [err  |-> \E k \in DOMAIN p : p[k].kind # "lit",
         list |-> [k \in DOMAIN p |->
                     IF p[k].kind # "lit" THEN Wide(0) ELSE Wide(p[k].val)]]

\* [err, list]: err when int() raises ValueError on some level.
to_list(path, index, account) ==
    LET p == replace(replace(path, "a", account), "i", index)
    IN  [err  |-> \E k \in DOMAIN p : p[k].kind # "lit",
         list |-> [k \in DOMAIN p |->
                     IF p[k].kind # "lit" THEN Wide(0)
                     ELSE IF p[k].hard THEN WideAdd(HARDENED_INDEX, Wide(p[k].val))
                     ELSE Wide(p[k].val)]]

with_account(path, account) == replace(path, "a", <<account>>)

with_index(path, index) == replace(path, "i", <<index>>)

-----------------------------------------------------------------------------
(* External capabilities: the key derived for a list of derivation indexes *)
(* and the output script built from a key, both uninterpreted.             *)

get_pubkey_from_path(list) == [pubkey_at |-> list]

build_output_script(script_type, pubkey) == [script_of |-> pubkey, encoding |-> script_type]

-----------------------------------------------------------------------------
(* class DescriptorScriptIterator *)

Min(a, b) == IF a <= b THEN a ELSE b

\* bug: the bounds taken as given, whatever the path has free
DescriptorScriptIterator_unclamped(id, path, script_type, max_index, max_account) ==
    [id |-> id, path |-> path, script_type |-> script_type,
     index |-> 0, account |-> 0,
     max_index |-> max_index, max_account |-> max_account,
     total_scripts |-> (max_index + 1) * (max_account + 1)]

\* id stands for the identity of the object.
DescriptorScriptIterator(id, path, script_type, max_index, max_account) ==
    LET mi == IF has_variable_index(path) THEN max_index ELSE 0
        ma == IF has_variable_account(path) THEN max_account ELSE 0
    IN  [id |-> id, path |-> path, script_type |-> script_type,
         index |-> 0, account |-> 0,
         max_index |-> mi, max_account |-> ma,
         total_scripts |-> (mi + 1) * (ma + 1)]

\* bug: the bounds compared with >= instead of >
exhausted_inclusive(d) == d.index >= d.max_index \/ d.account >= d.max_account

exhausted(d) == d.index > d.max_index \/ d.account > d.max_account

\* bug: the account border of the grid forgotten
at_border_index_only(d) == d.index = 0

at_border(d) == d.index = 0 \/ d.account = d.max_account

\* bug: the next diagonal not clipped to max_index
next_diagonal_unclipped(d) ==
    LET diagonal_total == d.index + d.account + 1
    IN  [d EXCEPT !.index = diagonal_total, !.account = 0]

\* bug: the next diagonal entered at its account end
next_diagonal_from_account(d) ==
    LET diagonal_total == d.index + d.account + 1
        account == Min(diagonal_total, d.max_account)
    IN  [d EXCEPT !.index = diagonal_total - account, !.account = account]

next_diagonal(d) ==
    LET diagonal_total == d.index + d.account + 1
        index == Min(diagonal_total, d.max_index)
    IN  [d EXCEPT !.index = index, !.account = diagonal_total - index]

down_diagonal(d) == [d EXCEPT !.index = d.index - 1, !.account = d.account + 1]

advance(d) == IF at_border(d) THEN next_diagonal(d) ELSE down_diagonal(d)

None == [kind |-> "None"]
Error == [kind |-> "Error"]
Start == [kind |-> "Start"]

result_path(d) == with_account(d.path, d.account)

\* bug: the bound path stored back into the descriptor
descriptor_next_script_binds_self(d, ok) ==
    IF exhausted(d) THEN [self |-> d, ret |-> None, derived |-> 0]
    ELSE LET path == result_path(d)
             list == to_list(path, <<d.index>>, <<>>)
         IN  IF list.err THEN [self |-> d, ret |-> Error, derived |-> 0]
             ELSE IF ~ok THEN [self |-> d, ret |-> Error, derived |-> 1]
             ELSE [self |-> [advance(d) EXCEPT !.path = path],
                   ret  |-> [kind |-> "Result",
                             script |-> build_output_script(d.script_type,
                                            get_pubkey_from_path(list.list)),
                             path |-> path,
                             script_type |-> d.script_type,
                             cell |-> [id |-> d.id, index |-> d.index,
                                       account |-> d.account]],
                   derived |-> 1]

\* bug: the cursors advanced before the key is derived
descriptor_next_script_advance_first(d, ok) ==
    IF exhausted(d) THEN [self |-> d, ret |-> None, derived |-> 0]
    ELSE LET path == result_path(d)
             list == to_list(path, <<d.index>>, <<>>)
         IN  IF list.err THEN [self |-> advance(d), ret |-> Error, derived |-> 0]
             ELSE IF ~ok THEN [self |-> advance(d), ret |-> Error, derived |-> 1]
             ELSE [self |-> advance(d),
                   ret  |-> [kind |-> "Result",
                             script |-> build_output_script(d.script_type,
                                            get_pubkey_from_path(list.list)),
                             path |-> path,
                             script_type |-> d.script_type,
                             cell |-> [id |-> d.id, index |-> d.index,
                                       account |-> d.account]],
                   derived |-> 1]

\* bug: the key derived before the bounds are looked at
descriptor_next_script_derives_first(d, ok) ==
    LET path == result_path(d)
        list == to_list(path, <<d.index>>, <<>>)
    IN  IF list.err THEN [self |-> d, ret |-> Error, derived |-> 0]
        ELSE IF ~ok THEN [self |-> d, ret |-> Error, derived |-> 1]
        ELSE IF exhausted(d) THEN [self |-> d, ret |-> None, derived |-> 1]
        ELSE [self |-> advance(d),
              ret  |-> [kind |-> "Result",
                        script |-> build_output_script(d.script_type,
                                       get_pubkey_from_path(list.list)),
                        path |-> path,
                        script_type |-> d.script_type,
                        cell |-> [id |-> d.id, index |-> d.index,
                                  account |-> d.account]],
              derived |-> 1]

\* [self, ret, derived]: the object after the call, what the call returned
\* and how many keys it asked for; ok is whether the external key derivation
\* and script building succeed.
descriptor_next_script(d, ok) ==
    IF exhausted(d) THEN [self |-> d, ret |-> None, derived |-> 0]
    ELSE LET path == result_path(d)
             list == to_list(path, <<d.index>>, <<>>)
         IN  IF list.err THEN [self |-> d, ret |-> Error, derived |-> 0]
             ELSE IF ~ok THEN [self |-> d, ret |-> Error, derived |-> 1]
             ELSE [self |-> advance(d),
                   ret  |-> [kind |-> "Result",
                             script |-> build_output_script(d.script_type,
                                            get_pubkey_from_path(list.list)),
                             path |-> path,
                             script_type |-> d.script_type,
                             cell |-> [id |-> d.id, index |-> d.index,
                                       account |-> d.account]],
                   derived |-> 1]

-----------------------------------------------------------------------------
(* class ScriptIterator *)

RECURSIVE expand_first_type(_, _, _, _)
\* bug: one descriptor per path, of its first script type
expand_first_type(registry, id, max_index, max_account) ==
    IF registry = <<>> THEN <<>>
    ELSE LET e == Head(registry)
         IN  <<DescriptorScriptIterator(id, e.path, e.types[1], max_index, max_account)>>
                 \o expand_first_type(Tail(registry), id + 1, max_index, max_account)

RECURSIVE expand(_, _, _, _)
\* the descriptors of registry entries k.. , numbered from id in creation order
expand(registry, id, max_index, max_account) ==
    IF registry = <<>> THEN <<>>
    ELSE LET e == Head(registry)
             own == [t \in 1..Len(e.types) |->
                        DescriptorScriptIterator(id + t - 1, e.path, e.types[t],
                                                 max_index, max_account)]
         IN  own \o expand(Tail(registry), id + Len(e.types), max_index, max_account)

RECURSIVE sum_total_scripts(_)
sum_total_scripts(ds) ==
    IF ds = <<>> THEN 0 ELSE Head(ds).total_scripts + sum_total_scripts(Tail(ds))

ScriptIterator(registry, max_index, max_account) ==
    LET ds == expand(registry, 1, max_index, max_account)
    IN  [index |-> 0, descriptors |-> ds, total_scripts |-> sum_total_scripts(ds)]

\* bug: the cursor taken as a position counted from 1
delete_at_one_based(ds, index) ==
    [k \in 1..(Len(ds) - 1) |-> IF k < index THEN ds[k] ELSE ds[k + 1]]

\* del self.descriptors[self.index]
delete_at(ds, index) ==
    [k \in 1..(Len(ds) - 1) |-> IF k <= index THEN ds[k] ELSE ds[k + 1]]

\* bug: the wrap-around test off by one
wrap_late(index, ds) == IF index > Len(ds) THEN 0 ELSE index

wrap(index, ds) == IF index >= Len(ds) THEN 0 ELSE index

\* bug: the cursor not decremented after the deletion, skipping the follower
index_after_delete_skip(index, ds) == wrap(index + 1, ds)

\* the cursor after a descriptor reported None and was deleted
index_after_delete(index, ds) == wrap((index - 1) + 1, ds)

\* bug: the cursor not advanced after a result
index_after_result_stay(index, ds) == wrap(index, ds)

\* the cursor after a descriptor produced a script
index_after_result(index, ds) == wrap(index + 1, ds)

next_descriptor_script(self, ok) ==
    LET r == descriptor_next_script(self.descriptors[self.index + 1], ok)
    IN  IF r.ret = Error
        THEN \* the exception leaves the descriptor as next_script left it
             [self |-> [self EXCEPT !.descriptors[self.index + 1] = r.self],
              ret  |-> Error, derived |-> r.derived]
        ELSE IF r.ret = None
        THEN LET ds == delete_at(self.descriptors, self.index)
             IN  [self |-> [self EXCEPT !.descriptors = ds,
                                        !.index = index_after_delete(self.index, ds)],
                  ret  |-> None, derived |-> r.derived]
        ELSE LET ds == [self.descriptors EXCEPT ![self.index + 1] = r.self]
             IN  [self |-> [self EXCEPT !.descriptors = ds,
                                        !.index = index_after_result(self.index, ds)],
                  ret  |-> r.ret, derived |-> r.derived]

\* bug: None returned as soon as one descriptor is exhausted
next_script_no_loop(self, ok) ==
    IF Len(self.descriptors) > 0
    THEN LET r == next_descriptor_script(self, ok)
         IN  [self |-> r.self, ret |-> r.ret, derived |-> r.derived, iterations |-> 1]
    ELSE [self |-> self, ret |-> None, derived |-> 0, iterations |-> 0]

RECURSIVE next_script(_, _)
\* [self, ret, derived, iterations]: iterations counts the passes of the
\* while loop, derived the keys asked for over all of them
next_script(self, ok) ==
    IF Len(self.descriptors) > 0
    THEN LET r == next_descriptor_script(self, ok)
         IN  IF r.ret # None
             THEN [self |-> r.self, ret |-> r.ret, derived |-> r.derived, iterations |-> 1]
             ELSE LET rest == next_script(r.self, ok)
                  IN  [rest EXCEPT !.derived = r.derived + rest.derived,
                                   !.iterations = 1 + rest.iterations]
    ELSE [self |-> self, ret |-> None, derived |-> 0, iterations |-> 0]

-----------------------------------------------------------------------------
(* The runs: one object is constructed, then next_script() is called on it *)
(* again and again.                                                        *)

\* Paths a descriptor is built on: both levels free, index only, account
\* only, nothing free.
Paths == { Bip(44, VarAH, 0), <<LitH(0), LitH(0), VarIH>>,
           <<LitH(84), LitH(0), VarAH>>, <<LitH(0), Lit(0)>> }

Pool == { [path |-> Bip(44, VarAH, 0), types |-> <<LEGACY>>],
          [path |-> <<LitH(0), LitH(0), VarIH>>, types |-> <<LEGACY, SEGWIT>>],
          [path |-> <<LitH(84), LitH(0), VarAH>>, types |-> <<SEGWIT>>],
          [path |-> <<LitH(0), Lit(0)>>, types |-> <<COMPAT>>] }

\* a dict holds each path once
Registries ==
    {descriptors} \cup
    { r \in UNION { [1..n -> Pool] : n \in 1..MaxTemplates } :
        \A j, k \in DOMAIN r : j # k => r[j].path # r[k].path }

NoDescriptor == DescriptorScriptIterator(0, <<>>, LEGACY, 0, 0)
NoScriptIterator == [index |-> 0, descriptors |-> <<>>, total_scripts |-> 0]

record(r) ==
    /\ ret' = r.ret
    /\ IF r.ret.kind = "Result"
       THEN /\ results' = Append(results, [script |-> r.ret.script, path |-> r.ret.path,
                                           script_type |-> r.ret.script_type])
            /\ cells' = Append(cells, r.ret.cell)
            /\ actives' = Append(actives, Len(scriptIterator'.descriptors))
            /\ nones' = nones
       ELSE IF r.ret.kind = "None"
       THEN /\ nones < MaxNone
            /\ nones' = nones + 1
            /\ UNCHANGED <<results, cells, actives>>
       ELSE UNCHANGED <<results, cells, actives, nones>>

InitHistory ==
    /\ ret = Start
    /\ results = <<>>
    /\ cells = <<>>
    /\ actives = <<>>
    /\ nones = 0

\* ScriptIterator(master_key, max_index, max_account)
Init ==
    /\ \E registry \in Registries, max_index \in 0..MaxIndex, max_account \in 0..MaxAccount :
        /\ args = [registry |-> registry, max_index |-> max_index, max_account |-> max_account]
        /\ scriptIterator = ScriptIterator(registry, max_index, max_account)
    /\ descriptorIterator = NoDescriptor
    /\ InitHistory

\* ScriptIterator.next_script()
NextScript ==
    \E ok \in BOOLEAN :
        LET r == next_script(scriptIterator, ok)
        IN  /\ scriptIterator' = r.self
            /\ UNCHANGED <<args, descriptorIterator>>
            /\ record(r)

Next == NextScript

Spec == Init /\ [][Next]_vars

\* DescriptorScriptIterator(path, script_type, max_index, max_account)
InitSearch ==
    /\ \E path \in Paths, script_type \in ScriptType,
          max_index \in 0..MaxIndex, max_account \in 0..MaxAccount :
        /\ args = [path |-> path, script_type |-> script_type,
                   max_index |-> max_index, max_account |-> max_account]
        /\ descriptorIterator =
              DescriptorScriptIterator(1, path, script_type, max_index, max_account)
    /\ scriptIterator = NoScriptIterator
    /\ InitHistory

\* DescriptorScriptIterator.next_script(master_key)
DescriptorNextScript ==
    \E ok \in BOOLEAN :
        LET r == descriptor_next_script(descriptorIterator, ok)
        IN  /\ descriptorIterator' = r.self
            /\ UNCHANGED <<args, scriptIterator>>
            /\ record(r)

NextSearch == DescriptorNextScript

SpecSearch == InitSearch /\ [][NextSearch]_vars

-----------------------------------------------------------------------------
(* Properties of one DescriptorScriptIterator driven on its own (SpecSearch) *)

Cell(index, account) == <<index, account>>

\* the cells derived so far, in order
Visited == [k \in DOMAIN cells |-> Cell(cells[k].index, cells[k].account)]

Grid(d) == (0..d.max_index) \X (0..d.max_account)

DiagonalOf(c) == c[1] + c[2]

BothFree == has_variable_index(args.path) /\ has_variable_account(args.path)

Order_2_1 == <<Cell(0,0), Cell(1,0), Cell(0,1), Cell(2,0), Cell(1,1), Cell(2,1)>>

C1_Case == BothFree /\ args.max_index = 2 /\ args.max_account = 1

\* C1: with both placeholders, max_index = 2 and max_account = 1 the calls
\* derive (0,0), (1,0), (0,1), (2,0), (1,1), (2,1) in this order, 6 cells =
\* total_scripts, and the call after the 6th result returns None.
C1_DiagonalOrder_2_1 ==
    C1_Case =>
        /\ descriptorIterator.total_scripts = 6
        /\ Len(Visited) <= 6
        /\ Visited = SubSeq(Order_2_1, 1, Len(Visited))
        /\ Len(results) = Len(Visited)
        /\ (nones > 0 => Len(results) = 6 /\ ret = None)

C1_Witness == C1_Case /\ Visited = Order_2_1 /\ nones = 1 /\ ret = None

\* C2: the walk is anti-diagonal. The diagonal index + account never
\* decreases along the derived cells; a cell is derived only after every cell
\* of the grid on a lower diagonal; within a diagonal the account ascends by
\* one from the lowest account the grid has on it (0, or diagonal - max_index
\* where the diagonal is clipped).
C2_AntiDiagonal ==
    LET d == descriptorIterator
        v == Visited
    IN  \A k \in DOMAIN v :
            /\ \A j \in 1..(k - 1) :
                    /\ DiagonalOf(v[j]) <= DiagonalOf(v[k])
                    /\ DiagonalOf(v[j]) = DiagonalOf(v[k]) => v[j][2] < v[k][2]
            /\ \A c \in Grid(d) :
                    DiagonalOf(c) < DiagonalOf(v[k]) => \E j \in 1..(k - 1) : v[j] = c
            /\ IF k > 1 /\ DiagonalOf(v[k - 1]) = DiagonalOf(v[k])
               THEN v[k][2] = v[k - 1][2] + 1
               ELSE v[k][2] = IF DiagonalOf(v[k]) > d.max_index
                              THEN DiagonalOf(v[k]) - d.max_index ELSE 0

\* a clipped diagonal has been walked: it starts above account 0
C2_Witness ==
    /\ Len(Visited) = descriptorIterator.total_scripts
    /\ \E k \in DOMAIN Visited :
          /\ k > 1
          /\ DiagonalOf(Visited[k]) = DiagonalOf(Visited[k - 1])
          /\ DiagonalOf(Visited[k]) > descriptorIterator.max_index

\* C3: every cell of [0, max_index] x [0, max_account] is derived exactly
\* once before None is returned, and no cell outside it is ever derived.
C3_CoversGridOnce ==
    LET d == descriptorIterator
        v == Visited
    IN  /\ \A k \in DOMAIN v : v[k] \in Grid(d)
        /\ \A j, k \in DOMAIN v : j # k => v[j] # v[k]
        /\ (nones > 0 => \A c \in Grid(d) : \E k \in DOMAIN v : v[k] = c)

C3_Witness ==
    /\ nones > 0
    /\ descriptorIterator.max_index = MaxIndex
    /\ descriptorIterator.max_account = MaxAccount
    /\ Len(Visited) = (MaxIndex + 1) * (MaxAccount + 1)

C4_Counts ==
    /\ Len(results) <= descriptorIterator.total_scripts
    /\ (nones > 0 => Len(results) = descriptorIterator.total_scripts)

C4_Terminal ==
    nones > 0 =>
        /\ ret' = None
        /\ descriptorIterator' = descriptorIterator
        /\ results' = results

\* C4: of the calls that return, the first total_scripts return a result and
\* every later one returns None; once None has been returned every further
\* call returns None and leaves the cursors as they are.
C4_ExhaustionIsTerminal == []C4_Counts /\ [][C4_Terminal]_vars

C4_Witness ==
    /\ nones = MaxNone
    /\ descriptorIterator.total_scripts > 1
    /\ Len(results) = descriptorIterator.total_scripts

-----------------------------------------------------------------------------
(* Properties of the ScriptIterator (Spec). Every prefix of a run is a     *)
(* reachable state, so a property of the whole stream of results is stated *)
(* on the newest result against the ones before it.                        *)

\* the descriptors the scheduler was constructed with
Created == ScriptIterator(args.registry, args.max_index, args.max_account).descriptors

Collection == scriptIterator.descriptors

InCollection(id) == \E k \in DOMAIN Collection : Collection[k].id = id

\* how many of the results before position n + 1 descriptor id produced
CountUpTo(id, n) == Cardinality({k \in 1..n : cells[k].id = id})

Count(id) == CountUpTo(id, Len(cells))

RECURSIVE NthFrom(_, _, _)
\* position of the k-th result of descriptor id at or after position p (0: none)
NthFrom(id, k, p) ==
    IF p > Len(cells) THEN 0
    ELSE IF cells[p].id = id
         THEN IF k = 1 THEN p ELSE NthFrom(id, k - 1, p + 1)
         ELSE NthFrom(id, k, p + 1)

Position(id, k) == NthFrom(id, k, 1)

C5_Counts ==
    /\ Len(results) <= scriptIterator.total_scripts
    /\ (nones > 0 => Len(results) = scriptIterator.total_scripts)

C5_Terminal ==
    nones > 0 => ret' = None /\ results' = results /\ scriptIterator' = scriptIterator

\* C5: of the calls that return, the first total_scripts (the sum of the
\* descriptors' total_scripts) return a result and every later one returns
\* None; the precomputed total is the number of results ever returned.
C5_SchedulerCounts == []C5_Counts /\ [][C5_Terminal]_vars

C5_Witness ==
    /\ nones = MaxNone
    /\ Len(Created) >= 3
    /\ \E j, k \in DOMAIN Created : Created[j].total_scripts # Created[k].total_scripts
    /\ Len(results) = scriptIterator.total_scripts

\* C6: no two results carry the same (path, script_type) pair.
C6_NoDuplicatePathType ==
    \A j, k \in DOMAIN results :
        j < k /\ k = Len(results) =>
            <<results[j].path, results[j].script_type>>
                # <<results[k].path, results[k].script_type>>

C7_Case(n) == n > 0 /\ ret.kind = "Result"

\* C7: round-robin fairness. When descriptor A produces a result, every
\* other descriptor still in the collection has produced exactly one result
\* since A's previous result; a descriptor's (k+1)-th result comes only after
\* the k-th result of every descriptor that has k cells; the result counts of
\* two descriptors in the collection differ by at most one.
C7_RoundRobin ==
    LET n == Len(cells)
        created == Created
        cnt == [id \in 1..Len(created) |-> Count(id)]
        counts == {cnt[Collection[k].id] : k \in DOMAIN Collection}
    IN  /\ \A x, y \in counts : x - y <= 1
        /\ n > 0 =>
              LET a == cells[n].id
                  prev == IF cnt[a] > 1 THEN Position(a, cnt[a] - 1) ELSE 0
              IN  /\ \A b \in 1..Len(created) :
                        created[b].total_scripts >= cnt[a] - 1 => cnt[b] >= cnt[a] - 1
                  /\ prev > 0 =>
                        \A k \in DOMAIN Collection :
                            Collection[k].id # a =>
                                cnt[Collection[k].id] - CountUpTo(Collection[k].id, prev) = 1

\* a descriptor was deleted between two results of another one
C7_Witness ==
    /\ Len(cells) > 0
    /\ Count(cells[Len(cells)].id) >= 3
    /\ Len(Collection) >= 2
    /\ Len(Collection) < Len(Created)
    /\ actives[Len(cells) - 1] > Len(Collection)

\* the bound of C8 on the newest result: it is A's k-th; B is another
\* descriptor in the collection, p the position of its (k-1)-th result
C8_Distance(bound(_)) ==
    LET n == Len(cells)
    IN  n > 0 =>
          LET a == cells[n].id
              k == Count(a)
          IN  k >= 2 =>
                \A j \in DOMAIN Collection :
                    LET b == Collection[j].id
                        p == Position(b, k - 1)
                    IN  b # a => p > 0 /\ n - p <= bound(p)

C8_BoundNow(p) == Len(Collection) - 1

C8_BoundTwice(p) == 2 * actives[p] - 1

\* C8 as stated: A's k-th result is at most (number of descriptors in the
\* collection - 1) positions after B's (k-1)-th result.
C8_Original == C8_Distance(C8_BoundNow)

\* C8 amended: A's k-th result is at most 2N - 1 positions after B's
\* (k-1)-th result, N the size of the collection when B's (k-1)-th result was
\* returned; and no descriptor's second result comes before the first result
\* of every descriptor.
C8_Amended ==
    /\ C8_Distance(C8_BoundTwice)
    /\ \A n \in DOMAIN cells :
          n = Len(cells) /\ Count(cells[n].id) = 2 =>
              \A b \in 1..Len(Created) : Position(b, 1) \in 1..(n - 1)

\* the bound 2N - 1 is met, after a descriptor has been deleted
C8_Witness ==
    LET n == Len(cells)
    IN  /\ n > 0
        /\ Len(Collection) < Len(Created)
        /\ Count(cells[n].id) >= 2
        /\ \E j \in DOMAIN Collection :
              LET p == Position(Collection[j].id, Count(cells[n].id) - 1)
              IN  /\ Collection[j].id # cells[n].id
                  /\ p > 0
                  /\ n - p = 2 * actives[p] - 1

\* C9: the cursor is a valid index into the collection, or the collection is
\* empty.
C9_CursorValid ==
    \/ Len(Collection) = 0
    \/ 0 <= scriptIterator.index /\ scriptIterator.index < Len(Collection)

Remaining == {Collection[k].id : k \in DOMAIN Collection}

Deleted == {Created[k].id : k \in DOMAIN Created} \ Remaining

\* a descriptor between two others was deleted and the cursor stands past
\* the first position of what is left
C9_Witness ==
    /\ scriptIterator.index > 0
    /\ \E d \in Deleted : \E x, y \in Remaining : x < d /\ d < y

InGrid(d) ==
    /\ 0 <= d.index /\ d.index <= d.max_index
    /\ 0 <= d.account /\ d.account <= d.max_account

\* C10 as stated: every descriptor that has not returned None yet, so every
\* descriptor of the collection, has its cursors in the grid.
C10_Original == \A k \in DOMAIN Collection : InGrid(Collection[k])

\* C10 amended: a descriptor that has a cell left has its cursors in the
\* grid; one that has returned its last cell and not yet None has
\* index = max_index and account = max_account + 1.
C10_Amended ==
    \A k \in DOMAIN Collection :
        LET d == Collection[k]
        IN  IF Count(d.id) < d.total_scripts
            THEN InGrid(d)
            ELSE d.index = d.max_index /\ d.account = d.max_account + 1

C10_Witness ==
    \E j, k \in DOMAIN Collection :
        /\ Count(Collection[j].id) = Collection[j].total_scripts
        /\ Count(Collection[k].id) < Collection[k].total_scripts
        /\ Collection[k].index > 0
        /\ Collection[k].account > 0

-----------------------------------------------------------------------------
(* Failure of the external capabilities *)

\* the descriptor the cursor designates
Designated(it) == it.descriptors[it.index + 1]

CellAt(d) == [id |-> d.id, index |-> d.index, account |-> d.account]

C11_Abort ==
    ret' = Error =>
        LET c == scriptIterator'.descriptors
        IN  /\ Len(c) > 0
            /\ scriptIterator'.index \in 0..(Len(c) - 1)
            /\ ~exhausted(Designated(scriptIterator'))
            /\ \A k \in DOMAIN c : \E j \in DOMAIN Collection : Collection[j] = c[k]
            /\ \A j \in DOMAIN Collection :
                  (\A k \in DOMAIN c : c[k] # Collection[j]) => exhausted(Collection[j])
            /\ UNCHANGED <<results, cells, nones>>

C11_Retry ==
    ret = Error =>
        /\ ret' # None
        /\ ret' = Error => scriptIterator' = scriptIterator
        /\ ret'.kind = "Result" =>
              cells'[Len(cells')] = CellAt(Designated(scriptIterator))

\* C11: a call in which the key derivation or the script building fails
\* returns nothing and leaves the failing descriptor in the collection, under
\* the cursor, with its cursors unchanged (only descriptors found exhausted
\* before it in the same call are gone); the next call attempts the same cell.
C11_FailureLeavesState == [][C11_Abort /\ C11_Retry]_vars

\* a call failed after it had deleted an exhausted descriptor
C11_Witness ==
    /\ ret = Error
    /\ Len(cells) > 0
    /\ Len(Collection) > 0
    /\ Len(Collection) < actives[Len(actives)]
    /\ Designated(scriptIterator).index > 0

-----------------------------------------------------------------------------
(* Deletion of exhausted descriptors *)

IdsOf(ds) == {ds[k].id : k \in DOMAIN ds}

PositionIn(ds, id) == CHOOSE k \in DOMAIN ds : ds[k].id = id

\* the positions (from 1) a call visits before position pp, starting at the
\* cursor index (from 0) of a collection of n descriptors
VisitedBefore(index, pp, n) ==
    IF pp >= index + 1 THEN (index + 1)..(pp - 1)
    ELSE ((index + 1)..n) \cup (1..(pp - 1))

C12_Kept ==
    LET created == Created
    IN  /\ \A j \in DOMAIN Collection :
              j > 1 => Collection[j - 1].id < Collection[j].id
        /\ \A id \in IdsOf(created) \ Remaining :
              Count(id) = created[id].total_scripts

C12_Step ==
    LET pre == Collection
        post == scriptIterator'.descriptors
        gone == IdsOf(pre) \ IdsOf(post)
    IN  /\ IdsOf(post) \subseteq IdsOf(pre)
        /\ \A k \in DOMAIN pre : pre[k].id \in gone => exhausted(pre[k])
        /\ ret' = None => post = <<>>
        /\ ret'.kind = "Result" =>
              LET pp == PositionIn(pre, cells'[Len(cells')].id)
                  visited == VisitedBefore(scriptIterator.index, pp, Len(pre))
                  q == PositionIn(post, cells'[Len(cells')].id)
              IN  /\ gone = {pre[k].id : k \in visited}
                  /\ ~exhausted(pre[pp])
                  /\ scriptIterator'.index = IF q = Len(post) THEN 0 ELSE q

\* C12: a descriptor is deleted exactly when a call finds it exhausted: only
\* descriptors with no cell left are deleted, every exhausted descriptor the
\* call visits is deleted, the others keep their order, and the descriptor
\* tried next is the one that followed the deleted one, the first one when
\* the deleted one was last.
C12_DeletionOnExhaustion == []C12_Kept /\ [][C12_Step]_vars

\* the last descriptor was deleted and the call went on with the first one
C12_Witness ==
    /\ ret.kind = "Result"
    /\ Len(cells) > 1
    /\ Len(Collection) >= 2
    /\ Len(Collection) < actives[Len(actives) - 1]
    /\ Len(Created) \in Deleted
    /\ cells[Len(cells)].id = Collection[1].id
    /\ cells[Len(cells) - 1].id = Collection[Len(Collection)].id

-----------------------------------------------------------------------------
(* Paths and their binding, on one DescriptorScriptIterator (SpecSearch) *)

\* C13: binding returns a new path and leaves the template as it was: after
\* any number of calls the descriptor holds the path it was constructed
\* with, still with its free account, while every returned path has the
\* account of its cell bound and the index level untouched.
C13_BindingKeepsTemplate ==
    /\ descriptorIterator.path = args.path
    /\ has_variable_account(descriptorIterator.path) = has_variable_account(args.path)
    /\ \A k \in DOMAIN results :
          /\ results[k].path = with_account(args.path, cells[k].account)
          /\ ~has_variable_account(results[k].path)
          /\ has_variable_index(results[k].path) = has_variable_index(args.path)
          /\ has_variable_account(args.path) => results[k].path # args.path

C13_Witness ==
    /\ has_variable_account(args.path)
    /\ has_variable_account(descriptorIterator.path)
    /\ Len(results) >= 2
    /\ cells[Len(cells)].account > 0

FixedPath == <<LitH(0), Lit(0)>>

IndexOnlyPath == <<LitH(0), LitH(0), VarIH>>

\* C14: a path with nothing free has both bounds clamped to 0, 1 script in
\* total and gives one result before None; a path with only the index free
\* has max_account clamped to 0 and gives max_index + 1 results.
C14_Clamping ==
    LET d == descriptorIterator
    IN  /\ args.path = FixedPath =>
              /\ ~has_variable_account(args.path) /\ ~has_variable_index(args.path)
              /\ d.max_index = 0 /\ d.max_account = 0
              /\ d.total_scripts = 1
              /\ Len(results) <= 1
              /\ (nones > 0 => Len(results) = 1)
        /\ args.path = IndexOnlyPath =>
              /\ has_variable_index(args.path) /\ ~has_variable_account(args.path)
              /\ d.max_index = args.max_index /\ d.max_account = 0
              /\ Len(results) <= args.max_index + 1
              /\ (nones > 0 => Len(results) = args.max_index + 1)

C14_Witness ==
    /\ args.path = FixedPath
    /\ args.max_index = MaxIndex
    /\ args.max_account = MaxAccount
    /\ Len(results) = 1
    /\ nones = MaxNone

\* m/44'/0'/a'/0/i at index and account, level by level
ExpectedBip44(index, account) ==
    << [hi |-> 32768, lo |-> 44], [hi |-> 32768, lo |-> 0], [hi |-> 32768, lo |-> account],
       [hi |-> 0, lo |-> 0], [hi |-> 0, lo |-> index] >>

\* the list of derivation indexes the key of result k was derived at
DerivedAt(k) == results[k].script.script_of.pubkey_at

\* C15: to_list binds both placeholders and adds 2^31 to the hardened
\* levels only: m/44'/0'/a'/0/i at index 5, account 2 is
\* [2^31 + 44, 2^31, 2^31 + 2, 0, 5]; and the key of every result is derived
\* at to_list(index, account) of the descriptor's path for the result's cell.
C15_Resolve ==
    /\ to_list(Bip(44, VarAH, 0), <<5>>, <<2>>) = [err |-> FALSE, list |-> ExpectedBip44(5, 2)]
    /\ HARDENED_INDEX = WideAdd(Wide(2147483647), Wide(1))
    /\ \A k \in DOMAIN results :
          /\ DerivedAt(k) = to_list(args.path, <<cells[k].index>>, <<cells[k].account>>).list
          /\ args.path = Bip(44, VarAH, 0) =>
                DerivedAt(k) = ExpectedBip44(cells[k].index, cells[k].account)

C15_Witness ==
    /\ args.path = Bip(44, VarAH, 0)
    /\ Len(results) > 0
    /\ cells[Len(cells)].index > 0
    /\ cells[Len(cells)].account > 0

-----------------------------------------------------------------------------
(* Cost of one ScriptIterator.next_script() call *)

\* the descriptors of ds that are not in the collection as they stand in ds
ChangedIn(ds) ==
    {k \in DOMAIN ds : \A j \in DOMAIN Collection : Collection[j] # ds[k]}

\* C16: whatever the external capabilities do, the next call makes at most
\* as many passes of its loop as there are descriptors in the collection,
\* every pass but the one that ends the call deleting one descriptor; it asks for
\* at most one key, for one when it returns a result and for none when it
\* returns None; and it changes the cursors of at most one descriptor.
C16_BoundedCall ==
    \A ok \in BOOLEAN :
        LET r == next_script(scriptIterator, ok)
            deleted == Len(Collection) - Len(r.self.descriptors)
        IN  /\ r.iterations <= Len(Collection)
            /\ deleted = IF r.ret = None THEN r.iterations ELSE r.iterations - 1
            /\ r.derived <= 1
            /\ r.ret.kind = "Result" => r.derived = 1
            /\ r.ret = None => r.derived = 0
            /\ Cardinality(ChangedIn(r.self.descriptors)) <= 1
            /\ r.ret.kind = "Result" => Cardinality(ChangedIn(r.self.descriptors)) = 1

\* the last call deleted two descriptors and then produced a result
C16_Witness ==
    /\ ret.kind = "Result"
    /\ Len(cells) > 1
    /\ actives[Len(actives)] <= actives[Len(actives) - 1] - 2
    /\ Len(Collection) >= 2

-----------------------------------------------------------------------------
(* The double-ended queue strategy: the descriptor at the front is called;  *)
(* it goes to the back if it produced a script and is dropped otherwise,    *)
(* the call going on with the new front.                                    *)

RECURSIVE deque_next_script(_, _)
deque_next_script(deque, ok) ==
    IF deque = <<>> THEN [self |-> <<>>, ret |-> None]
    ELSE LET r == descriptor_next_script(Head(deque), ok)
         IN  IF r.ret = Error THEN [self |-> <<r.self>> \o Tail(deque), ret |-> Error]
             ELSE IF r.ret = None THEN deque_next_script(Tail(deque), ok)
             ELSE [self |-> Append(Tail(deque), r.self), ret |-> r.ret]

\* the collection read as a queue: from the cursor on, then from the start
Rotation(it) ==
    SubSeq(it.descriptors, it.index + 1, Len(it.descriptors))
        \o SubSeq(it.descriptors, 1, it.index)

\* C17: the cursor bookkeeping gives the same results as the queue. The
\* scheduler starts as the queue of the created descriptors, and from every
\* state a call returns what the queue's call returns and leaves the
\* collection that, read from the cursor, is the queue left by that call.
C17_SameAsDeque ==
    /\ ret = Start => Rotation(scriptIterator) = Created
    /\ \A ok \in BOOLEAN :
          LET a == next_script(scriptIterator, ok)
              b == deque_next_script(Rotation(scriptIterator), ok)
          IN  /\ a.ret = b.ret
              /\ Rotation(a.self) = b.self

\* after a deletion, with the cursor inside the collection
C17_Witness ==
    /\ ret.kind = "Result"
    /\ Len(Collection) >= 2
    /\ Len(Collection) < Len(Created)
    /\ scriptIterator.index > 0
    /\ \E k \in DOMAIN Collection : exhausted(Collection[k])

-----------------------------------------------------------------------------
(* Construction of the ScriptIterator *)

RECURSIVE Offset(_, _)
\* number of (path, script type) pairs of the registry entries before entry j
Offset(registry, j) ==
    IF j <= 1 THEN 0 ELSE Offset(registry, j - 1) + Len(registry[j - 1].types)

Pairs(registry) == Offset(registry, Len(registry) + 1)

\* C18: the scheduler starts with one descriptor per (path, script type)
\* pair, in registry order with the script types in their listed order, all
\* at cell (0,0); and the first results, as many as there are pairs, are the
\* cell (0,0) of each pair in that order.
C18_OnePerPair ==
    LET registry == args.registry
        S == Pairs(registry)
    IN  /\ ret = Start =>
              /\ Len(Collection) = S
              /\ scriptIterator.index = 0
              /\ \A j \in DOMAIN registry : \A t \in DOMAIN registry[j].types :
                    LET d == Collection[Offset(registry, j) + t]
                    IN  /\ d.path = registry[j].path
                        /\ d.script_type = registry[j].types[t]
                        /\ d.index = 0 /\ d.account = 0
        /\ \A j \in DOMAIN registry : \A t \in DOMAIN registry[j].types :
              LET k == Offset(registry, j) + t
              IN  k <= Len(cells) =>
                    /\ cells[k] = [id |-> k, index |-> 0, account |-> 0]
                    /\ results[k].path = with_account(registry[j].path, 0)
                    /\ results[k].script_type = registry[j].types[t]
                    /\ results[k].script.script_of.pubkey_at
                          = to_list(registry[j].path, <<0>>, <<0>>).list

\* the shipped registry, after the first result of each of its pairs
C18_Witness ==
    /\ args.registry = descriptors
    /\ Pairs(args.registry) > Len(args.registry)
    /\ Len(cells) = Pairs(args.registry)

-----------------------------------------------------------------------------
(* One descriptor inside the scheduler and on its own *)

RECURSIVE SoloRun(_)
\* the results of a descriptor driven alone until it returns None
SoloRun(d) ==
    LET r == descriptor_next_script(d, TRUE)
    IN  IF r.ret.kind = "Result" THEN <<r.ret>> \o SoloRun(r.self) ELSE <<>>

RECURSIVE SoloAfter(_, _)
\* a descriptor after n calls on it alone
SoloAfter(d, n) ==
    IF n = 0 THEN d ELSE SoloAfter(descriptor_next_script(d, TRUE).self, n - 1)

\* on the newest result: it is the k-th of its descriptor, as when alone
C19_SameAsAlone ==
    LET created == Created
        n == Len(cells)
    IN  /\ n = 0 => \A j \in DOMAIN Collection : Collection[j] = created[Collection[j].id]
        /\ n > 0 =>
              LET a == cells[n].id
                  solo == SoloRun(created[a])
                  k == Count(a)
              IN  /\ k <= Len(solo)
                  /\ cells[n] = solo[k].cell
                  /\ results[n] = [script |-> solo[k].script, path |-> solo[k].path,
                                    script_type |-> solo[k].script_type]
                  /\ \A j \in DOMAIN Collection :
                        Collection[j].id = a =>
                            Collection[j] = SoloAfter(created[a], k)

\* on a call: the other descriptors are left as they were, and a descriptor
\* is deleted after as many results as it gives alone
C19_OthersUntouched ==
    LET post == scriptIterator'.descriptors
    IN  /\ \A k \in DOMAIN post :
              (ret'.kind = "Result" => post[k].id # cells'[Len(cells')].id) =>
                  \E j \in DOMAIN Collection : Collection[j] = post[k]
        /\ \A j \in DOMAIN Collection :
              Collection[j].id \notin IdsOf(post) =>
                  Count(Collection[j].id) = Len(SoloRun(Created[Collection[j].id]))

\* C19: the results a descriptor gives inside the scheduler are the results
\* it gives when driven alone until None, in the same order, and a call
\* changes the cursors of no descriptor but the one that produces.
C19_IndependentlyDrivable == []C19_SameAsAlone /\ [][C19_OthersUntouched]_vars

\* a descriptor with a grid of several diagonals was run to its end, after
\* smaller ones had been deleted
C19_Witness ==
    /\ nones > 0
    /\ Len(actives) > 0
    /\ actives[Len(actives)] < Len(Created)
    /\ \E id \in Deleted :
          /\ Count(id) >= 4
          /\ Created[id].max_index > 0
          /\ Created[id].max_account > 0

-----------------------------------------------------------------------------
(* The cursors of one DescriptorScriptIterator (SpecSearch) *)

C20_Cursors ==
    LET d == descriptorIterator
    IN  /\ 0 <= d.index /\ d.index <= d.max_index
        /\ 0 <= d.account /\ d.account <= d.max_account + 1
        /\ ~InGrid(d) =>
              /\ d.index = d.max_index
              /\ d.account = d.max_account + 1
              /\ Len(cells) = d.total_scripts
              /\ Visited[Len(cells)] = Cell(d.max_index, d.max_account)

C20_Frozen == ~InGrid(descriptorIterator) => descriptorIterator' = descriptorIterator

\* C20: index stays in 0..max_index and account in 0..max_account + 1; the
\* cursors leave the grid only once the cell (max_index, max_account) has
\* been returned, then stand at (max_index, max_account + 1) and are never
\* changed again.
C20_CursorRange == []C20_Cursors /\ [][C20_Frozen]_vars

C20_Witness ==
    /\ ~InGrid(descriptorIterator)
    /\ descriptorIterator.max_index > 0
    /\ descriptorIterator.max_account > 0
    /\ nones = MaxNone

====
